---- MODULE Spec2Model ----
(***************************************************************************)
(* The decision-tree client of ExternalIO/spdz-decision-tree-app.cpp: it   *)
(* connects to every SPDZ engine, masks each private value with a triple   *)
(* aggregated from the engines' shares, sends split parameters and         *)
(* indicator vectors, and reads the result.                                *)
(*                                                                         *)
(* Representation.  A float x is the integer x * FloatUnit (every float    *)
(* the model uses is a multiple of 2^-10, exactly representable in         *)
(* binary32).  A gfp element is its residue in 0 .. prime-1.  Vectors are  *)
(* sequences, so index i of the source is index i+1 here.                  *)
(***************************************************************************)
EXTENDS Integers, Sequences, FiniteSets, TLC

\* #define SPDZ_FIXED_PRECISION 8
SPDZ_FIXED_PRECISION == 8
\* #define MAX_SPLIT_NUM 8
MAX_SPLIT_NUM == 8
\* host_names holds three addresses, so engines 0..2 can be reached
NumHosts == 3
\* int port_base = 20000
port_base == 20000

\* One float unit: floats are counted in multiples of 2^-10.
FloatUnit == 2 ^ 10
\* The modulus Params-Data holds.  The deployed prime has 128 bits; the
\* model uses the Mersenne prime 2^19 - 1, wide enough for every
\* fixed-point encoding of |x| <= 2^8.
FieldPrime == 2 ^ 19 - 1
\* A small modulus, under which every element of the field is enumerated.
MaskPrime == 11

\* Bounds of the model.
MaxInputs == 2

VARIABLES
    pc,          \* position of main, or of the harness that calls one function
    status,      \* "running", or how the process ended
    prime,       \* the modulus gfp::init_field set; 0 before
    nparties,    \* argv[2]
    chan,        \* per engine: the socket (fd), its port, whether the id was sent, the
                 \* triples it dealt, the buffers sent to it, the one in its inbox
    values,      \* send_private_inputs: the values to send
    triples,     \* send_private_inputs: the aggregated triples
    os,          \* send_private_inputs: the octetStream
    party,       \* send_private_inputs: the engine loop index j
    ip,          \* send_private_inputs: position inside the call
    shares,      \* history: the buffers received in this call, one per engine
    my_client_id,            \* argv[1]
    indexed,                 \* history: the positions of host_names, of sockets and
                             \* of local_data that were indexed
    params_file,             \* Params-Data: whether it exists, the prime it holds
    data_file,               \* client_<id>.txt: whether it exists, its rows
    local_data,              \* main: the rows read
    sample_num,              \* main
    feature_num,             \* main
    training_data,           \* main
    training_labels,         \* main
    feature_split_params,    \* main
    feat,                    \* main: features whose indicator vectors are computed
    queue,                   \* main: what the running send loops still send
    finished,                \* main: what receive_index returned
    result_msgs,             \* history: the result buffer of every engine
    calls,                   \* history: the send calls made so far, by call site
    size,                    \* receive_result: the number of elements per buffer
    output_values,           \* receive_result: the sums of the elements received
    res_shares,              \* receive_result: the decoded vector
    best_split_index,        \* receive_result: the decoded index
    batch,                   \* send_private_batch_shares: the floats to send
    column,                  \* compute_splits: feature_values
    split_params,            \* compute_splits: the vector returned
    idx,                     \* sort_indexes: the index order returned
    reads,                   \* history: the sorted positions the quantile loop read
    split_values_arg,        \* compute_feature_split_ivs: the split_values it is given
    left_split_ivs,          \* compute_feature_split_ivs: the rows appended
    right_split_ivs,         \* compute_feature_split_ivs: the rows appended
    classes_ivs,             \* compute_label_class_ivs: the rows returned
    warnings                 \* cout: the one-distinct-value lines printed

frame == <<values, triples, os, party, ip, shares>>

mainvars == <<my_client_id, indexed, params_file, data_file, local_data, sample_num,
              feature_num, training_data, training_labels, feature_split_params,
              feat, queue, finished, result_msgs, calls>>

resultvars == <<size, output_values, res_shares, best_split_index>>

ivvars == <<split_values_arg, left_split_ivs, right_split_ivs, classes_ivs>>

splitvars == <<column, split_params, idx, reads, ivvars>>

unitvars == <<resultvars, batch, splitvars, warnings>>

vars == <<pc, status, prime, nparties, chan, frame, mainvars, unitvars>>

(***************************************************************************)
(* gfp, the field element of Math/gfp.h                                    *)
(***************************************************************************)
gfp_add(x, y) == (x + y) % prime

gfp_mul(x, y) == (x * y) % prime

\* gfp::assign(long): the residue of a signed integer
gfp_assign(z) == z % prime

\* to_signed_bigint: residues above (p-1)/2 stand for negative numbers
to_signed_bigint(x) == IF x > (prime - 1) \div 2 THEN x - prime ELSE x

(***************************************************************************)
(* What an engine may put into one triple share.  Sums of these are        *)
(* consistent for some choices and inconsistent for others, with every     *)
(* number of engines.  Under the small modulus the shares of a range over  *)
(* the whole field.                                                        *)
(***************************************************************************)
TripleShares ==
    IF prime = MaskPrime
    THEN { <<a, 1, a>> : a \in 0 .. prime - 1 } \cup { <<1, 0, 1>> }
    ELSE { <<0, 0, 0>>, <<1, 1, 1>>, <<1, 0, 1>> }

Engines == 1 .. nparties

(***************************************************************************)
(* send_private_inputs                                                     *)
(***************************************************************************)
\* a fresh chan entry: no socket yet
NoChannel ==
    [fd |-> "unset", port |-> 0, id_sent |-> FALSE, dealt |-> 0, nbuf |-> 0, inbox |-> <<>>]

\* the connection, were the identifier not sent on it
Connect_without_id(ch, i) == [ch EXCEPT !.fd = "open", !.port = port_base + (i - 1)]

\* set_up_client_socket(sockets[i], host, port_base + i) and the send of
\* my_client_id, for the engine of 1-based index i
Connect(ch, i) ==
    [ch EXCEPT !.fd = "open", !.port = port_base + (i - 1), !.id_sent = TRUE]

\* std::vector< std::vector<gfp> > triples(num_inputs, vector<gfp>(3)): all
\* zero.  ids is history: the engine shares summed into the entry.
InitTriples_stale(num_inputs) ==
    IF Len(triples) = num_inputs
    THEN triples
    ELSE [i \in 1 .. num_inputs |-> [a |-> 0, b |-> 0, c |-> 0, ids |-> {}]]

InitTriples(num_inputs) ==
    [i \in 1 .. num_inputs |-> [a |-> 0, b |-> 0, c |-> 0, ids |-> {}]]

\* The call: the locals as the declarations leave them.
EnterInputs(vals) ==
    /\ values' = vals
    /\ triples' = InitTriples(Len(vals))
    /\ os' = <<>>
    /\ party' = 1
    /\ shares' = <<>>
    /\ ip' = "recv"

\* triples[j][k] += triple_shares[k], for the buffer msg of engine e whose
\* first triple has serial number base + 1
Accumulate_by_party(acc, msg, e, base) ==
    [i \in 1 .. Len(acc) |->
        IF i = e
        THEN [a |-> gfp_add(acc[i].a, msg[i][1]),
              b |-> gfp_add(acc[i].b, msg[i][2]),
              c |-> gfp_add(acc[i].c, msg[i][3]),
              ids |-> acc[i].ids \cup {<<e, base + i>>}]
        ELSE acc[i]]

Accumulate(acc, msg, e, base) ==
    [i \in 1 .. Len(acc) |->
        [a |-> gfp_add(acc[i].a, msg[i][1]),
         b |-> gfp_add(acc[i].b, msg[i][2]),
         c |-> gfp_add(acc[i].c, msg[i][3]),
         ids |-> acc[i].ids \cup {<<e, base + i>>}]]

\* the receive loop, were it to stop after the first engine
recv_loop_ends_early(j) == TRUE

\* for (int j = 0; j < n_parties; j++): j was the last index
recv_loop_ends(j) == j = nparties

\* os.Receive(sockets[j]) and the unpack loop, for engine j = party.  An
\* engine reads the masked values of one call before it deals the triples of
\* the next, so its inbox is empty by then.
send_private_inputs_recv ==
    /\ status = "running"
    /\ ip = "recv"
    /\ party <= nparties
    /\ chan[party].fd = "open"
    /\ \E msg \in [1 .. Len(values) -> TripleShares] :
        /\ triples' = Accumulate(triples, msg, party, chan[party].dealt)
        /\ shares' = Append(shares, msg)
        /\ chan' = [chan EXCEPT ![party].dealt = @ + Len(values),
                                 ![party].inbox = <<>>]
    /\ party' = IF recv_loop_ends(party) THEN 1 ELSE party + 1
    /\ ip' = IF recv_loop_ends(party) THEN "check" ELSE "recv"
    /\ UNCHANGED <<pc, status, prime, nparties, values, os, mainvars, unitvars>>

\* triples[i][0] * triples[i][1] != triples[i][2]
BadTriple(t) == gfp_mul(t.a, t.b) # t.c

\* gfp y = values[i] + triples[i][0]
Mask_with_b(v, t) == gfp_add(v, t.b)

Mask_in_clear(v, t) == v

Mask(v, t) == gfp_add(v, t.a)

\* the check loop, then either exit(1) or the pack loop
send_private_inputs_check ==
    /\ status = "running"
    /\ ip = "check"
    /\ IF \E i \in 1 .. Len(values) : BadTriple(triples[i])
       THEN /\ status' = "exit1"
            /\ UNCHANGED <<os, ip>>
       ELSE /\ os' = [i \in 1 .. Len(values) |-> Mask(values[i], triples[i])]
            /\ ip' = "send"
            /\ UNCHANGED status
    /\ UNCHANGED <<pc, prime, nparties, chan, values, triples, party, shares, mainvars, unitvars>>

\* os.Send(sockets[j]), for engine j = party
send_private_inputs_send ==
    /\ status = "running"
    /\ ip = "send"
    /\ party <= nparties
    /\ chan[party].fd = "open"
    /\ chan' = [chan EXCEPT ![party].inbox = os, ![party].nbuf = @ + 1]
    /\ party' = IF party = nparties THEN 1 ELSE party + 1
    /\ ip' = IF party = nparties THEN "done" ELSE "send"
    /\ UNCHANGED <<pc, status, prime, nparties, values, triples, os, shares, mainvars, unitvars>>

(***************************************************************************)
(* send_private_batch_shares                                               *)
(***************************************************************************)
\* FloatUnit / 2^SPDZ_FIXED_PRECISION: float units per fixed-point unit
UnitsPerFixed == FloatUnit \div (2 ^ SPDZ_FIXED_PRECISION)

\* static_cast<int64_t>(round(shares[i] * pow(2, SPDZ_FIXED_PRECISION))):
\* round() rounds halves away from zero
fixed_encode_truncating(x) ==
    IF x >= 0 THEN x \div UnitsPerFixed ELSE -((-x) \div UnitsPerFixed)

fixed_encode(x) ==
    IF x >= 0
    THEN (2 * x + UnitsPerFixed) \div (2 * UnitsPerFixed)
    ELSE -((2 * (-x) + UnitsPerFixed) \div (2 * UnitsPerFixed))

\* input_values_gfp[i].assign(long_shares[i])
batch_to_gfp(xs) == [i \in 1 .. Len(xs) |-> gfp_assign(fixed_encode(xs[i]))]

send_private_batch_shares(xs) ==
    /\ batch' = xs
    /\ EnterInputs(batch_to_gfp(xs))

(***************************************************************************)
(* sort_indexes, compute_distinct_values, compute_splits                   *)
(***************************************************************************)
\* std::sort leaves the order of equal values open; the two orders kept
\* here are the ascending and the descending index order among equals.
TieOrders == { "up", "down" }

\* the index order std::sort produces under the comparator v[i1] < v[i2]
sort_indexes(v, tie) ==
    LET Before(i1, i2) ==
            \/ v[i1] < v[i2]
            \/ /\ v[i1] = v[i2]
               /\ IF tie = "up" THEN i1 < i2 ELSE i1 > i2
        Rank(i) == Cardinality({ k \in 1 .. Len(v) : Before(k, i) }) + 1
    IN  [p \in 1 .. Len(v) |-> CHOOSE i \in 1 .. Len(v) : Rank(i) = p]

RECURSIVE DistinctFrom(_, _, _, _)
\* the scan of compute_distinct_values from position i on
DistinctFrom(feature_values, sorted_indexes, i, distinct_values) ==
    IF i > Len(feature_values)
    THEN distinct_values
    ELSE IF distinct_values = << >>
              \/ distinct_values[Len(distinct_values)] # feature_values[sorted_indexes[i]]
         THEN DistinctFrom(feature_values, sorted_indexes, i + 1,
                           Append(distinct_values, feature_values[sorted_indexes[i]]))
         ELSE DistinctFrom(feature_values, sorted_indexes, i + 1, distinct_values)

\* the scan, were it to follow the original order of the samples
compute_distinct_values_unsorted(feature_values, sorted_indexes) ==
    DistinctFrom(feature_values, [i \in 1 .. Len(feature_values) |-> i], 1, << >>)

compute_distinct_values(feature_values, sorted_indexes) ==
    DistinctFrom(feature_values, sorted_indexes, 1, << >>)

\* the float -1 and the float of an integer count
Sentinel == -FloatUnit

FloatOf(n) == n * FloatUnit

\* feature_values[sorted_indexes[pos]] for the 0-based position pos; past
\* the end of sorted_indexes the read is undefined and yields garbage
SortedAt(feature_values, sorted_indexes, pos, garbage) ==
    IF pos + 1 <= Len(feature_values)
    THEN feature_values[sorted_indexes[pos + 1]]
    ELSE garbage

\* the second position read for boundary i (0-based)
UpperPos(i, n_sample_per_bin) == (i + 1) * n_sample_per_bin + 1

\* whether the quantile branch reads past the end of the column
SplitsReadPastEnd(feature_values) ==
    LET dv == compute_distinct_values(feature_values, sort_indexes(feature_values, "up"))
        n_sample_per_bin == Len(feature_values) \div (MAX_SPLIT_NUM + 1)
    IN  /\ Len(dv) >= MAX_SPLIT_NUM + 1
        /\ UpperPos(MAX_SPLIT_NUM - 1, n_sample_per_bin) >= Len(feature_values)

\* the last branch, as its commented-out lines would have it: the value in
\* the first slot
one_distinct_params_with_value(distinct_values) ==
    <<FloatOf(0)>>
    \o [k \in 1 .. MAX_SPLIT_NUM |->
           IF k - 1 < 1 /\ distinct_values # << >> THEN distinct_values[1] ELSE Sentinel]

\* the last branch: 0, then -1 in every slot
one_distinct_params(distinct_values) ==
    <<FloatOf(0)>> \o [k \in 1 .. MAX_SPLIT_NUM |-> Sentinel]

compute_splits(feature_values, tie, garbage) ==
    LET sorted_indexes == sort_indexes(feature_values, tie)
        n_samples == Len(feature_values)
        distinct_values == compute_distinct_values(feature_values, sorted_indexes)
        n_sample_per_bin == n_samples \div (MAX_SPLIT_NUM + 1)
        split_value(i) ==
            (SortedAt(feature_values, sorted_indexes, (i + 1) * n_sample_per_bin, garbage)
             + SortedAt(feature_values, sorted_indexes, UpperPos(i, n_sample_per_bin), garbage))
            \div 2
    IN  IF Len(distinct_values) >= MAX_SPLIT_NUM + 1
        THEN <<FloatOf(MAX_SPLIT_NUM)>>
             \o [k \in 1 .. MAX_SPLIT_NUM |-> split_value(k - 1)]
        ELSE IF Len(distinct_values) > 1
        THEN <<FloatOf(Len(distinct_values) - 1)>>
             \o [k \in 1 .. MAX_SPLIT_NUM |->
                    IF k - 1 <= Len(distinct_values) - 1
                    THEN distinct_values[k]
                    ELSE Sentinel]
        ELSE one_distinct_params(distinct_values)

\* the sorted positions (0-based) the loop of the quantile branch reads
QuantileReads(feature_values) ==
    LET dv == compute_distinct_values(feature_values, sort_indexes(feature_values, "up"))
        n_sample_per_bin == Len(feature_values) \div (MAX_SPLIT_NUM + 1)
    IN  IF Len(dv) >= MAX_SPLIT_NUM + 1
        THEN UNION { { (i + 1) * n_sample_per_bin, UpperPos(i, n_sample_per_bin) } :
                        i \in 0 .. MAX_SPLIT_NUM - 1 }
        ELSE {}

\* the lines the last branch prints: one when at most one value is distinct
one_distinct_warning(feature_values) ==
    LET dv == compute_distinct_values(feature_values, sort_indexes(feature_values, "up"))
    IN  IF Len(dv) >= MAX_SPLIT_NUM + 1 \/ Len(dv) > 1 THEN 0 ELSE 1

(***************************************************************************)
(* compute_feature_split_ivs, compute_label_class_ivs                      *)
(***************************************************************************)
\* the comparison, were it strict
compute_feature_split_ivs_strict(feature_values, split_values) ==
    LET split_num == Len(split_values) - 1
    IN  [left |-> [s \in 1 .. split_num |->
                     [i \in 1 .. Len(feature_values) |->
                        IF feature_values[i] < split_values[s + 1] THEN 1 ELSE 0]],
         right |-> [s \in 1 .. split_num |->
                     [i \in 1 .. Len(feature_values) |->
                        IF feature_values[i] < split_values[s + 1] THEN 0 ELSE 1]]]

compute_feature_split_ivs(feature_values, split_values) ==
    LET split_num == Len(split_values) - 1
    IN  [left |-> [s \in 1 .. split_num |->
                     [i \in 1 .. Len(feature_values) |->
                        IF feature_values[i] <= split_values[s + 1] THEN 1 ELSE 0]],
         right |-> [s \in 1 .. split_num |->
                     [i \in 1 .. Len(feature_values) |->
                        IF feature_values[i] <= split_values[s + 1] THEN 0 ELSE 1]]]

RECURSIVE ClassesFrom(_, _, _)
\* the first loop of compute_label_class_ivs from label i on
ClassesFrom(training_labels_, i, classes) ==
    IF i > Len(training_labels_)
    THEN classes
    ELSE IF \E j \in 1 .. Len(classes) : classes[j] = training_labels_[i]
         THEN ClassesFrom(training_labels_, i + 1, classes)
         ELSE ClassesFrom(training_labels_, i + 1, Append(classes, training_labels_[i]))

\* the rows, were the classes taken in ascending order of their value
compute_label_class_ivs_ascending(training_labels_) ==
    LET classes == compute_distinct_values(training_labels_,
                                           sort_indexes(training_labels_, "up"))
    IN  [j \in 1 .. Len(classes) |->
           [i \in 1 .. Len(training_labels_) |->
              IF training_labels_[i] = classes[j] THEN 1 ELSE 0]]

compute_label_class_ivs(training_labels_) ==
    LET classes == ClassesFrom(training_labels_, 1, << >>)
    IN  [j \in 1 .. Len(classes) |->
           [i \in 1 .. Len(training_labels_) |->
              IF training_labels_[i] = classes[j] THEN 1 ELSE 0]]

\* a file that does not exist
NoFile == [exists |-> FALSE, p |-> 0, rows |-> << >>]

\* nothing was indexed yet
NoIndexed == [hosts |-> {}, sockets |-> {}, rows |-> {}]

\* main's variables where main does not run
NoMain ==
    /\ my_client_id = 0
    /\ indexed = NoIndexed
    /\ params_file = NoFile
    /\ data_file = NoFile
    /\ local_data = <<>>
    /\ sample_num = 0
    /\ feature_num = 0
    /\ training_data = <<>>
    /\ training_labels = <<>>
    /\ feature_split_params = <<>>
    /\ feat = 0
    /\ queue = <<>>
    /\ finished = 0
    /\ result_msgs = <<>>
    /\ calls = <<>>

\* the variables of receive_result where it does not run
NoResult ==
    /\ size = 0
    /\ output_values = <<>>
    /\ res_shares = <<>>
    /\ best_split_index = 0

\* the variables of compute_splits and of the indicator vectors where they
\* do not run
NoSplits ==
    /\ column = <<>>
    /\ split_params = <<>>
    /\ idx = <<>>
    /\ reads = {}
    /\ split_values_arg = <<>>
    /\ left_split_ivs = <<>>
    /\ right_split_ivs = <<>>
    /\ classes_ivs = <<>>

\* the variables of the functions main's run does not single out
NoUnits ==
    /\ NoResult
    /\ batch = <<>>
    /\ NoSplits
    /\ warnings = 0

(***************************************************************************)
(* One call of send_private_inputs, with any values and any engines        *)
(***************************************************************************)
InputValues == { 1, FieldPrime - 1 }

InputVectors == UNION { [1 .. n -> InputValues] : n \in 0 .. MaxInputs }

InitInputs ==
    /\ pc = "send_private_inputs"
    /\ status = "running"
    /\ prime = FieldPrime
    /\ nparties \in 1 .. NumHosts
    /\ chan = [e \in 1 .. nparties |-> Connect(NoChannel, e)]
    /\ values \in InputVectors
    /\ triples = InitTriples(Len(values))
    /\ os = <<>>
    /\ party = 1
    /\ shares = <<>>
    /\ ip = "recv"
    /\ NoMain
    /\ NoUnits

\* one value of the small field, to one or two engines
InitMask ==
    /\ pc = "send_private_inputs"
    /\ status = "running"
    /\ prime = MaskPrime
    /\ nparties \in 1 .. 2
    /\ chan = [e \in 1 .. nparties |-> Connect(NoChannel, e)]
    /\ values \in [1 .. 1 -> 0 .. prime - 1]
    /\ triples = InitTriples(Len(values))
    /\ os = <<>>
    /\ party = 1
    /\ shares = <<>>
    /\ ip = "recv"
    /\ NoMain
    /\ NoUnits

NextInputs ==
    \/ send_private_inputs_recv
    \/ send_private_inputs_check
    \/ send_private_inputs_send

SpecInputs == InitInputs /\ [][NextInputs]_vars

SpecMask == InitMask /\ [][NextInputs]_vars

(***************************************************************************)
(* main                                                                    *)
(***************************************************************************)
RECURSIVE Flatten(_)
\* the elements of the rows of a matrix, row by row
Flatten(rows) == IF rows = << >> THEN << >> ELSE Head(rows) \o Flatten(Tail(rows))

\* a sequence of queue entries, one per element of xs, for call site kind
Tagged(kind, xs) == [i \in 1 .. Len(xs) |-> [kind |-> kind, x |-> xs[i]]]

\* the frame of send_private_inputs is free: no call is running
NoCall == ip \in {"idle", "done"}

CallSites == {"feature", "label", "class_iv", "split", "left_iv", "right_iv"}

\* prep dir and initialise_fields: file_error is thrown when Params-Data is
\* missing, and nothing catches it
initialise_fields ==
    /\ status = "running"
    /\ pc = "initialise_fields"
    /\ IF ~params_file.exists
       THEN /\ status' = "file_error"
            /\ UNCHANGED <<pc, prime>>
       ELSE /\ prime' = params_file.p
            /\ pc' = "setup_sockets"
            /\ UNCHANGED status
    /\ UNCHANGED <<nparties, chan, frame, mainvars, unitvars>>

\* one round of the loop of setup_sockets: connect to engine i, send the id.
\* host_names holds NumHosts strings; host_names[i] beyond them is undefined:
\* a crash, a name set_up_client_socket gives up on, or one it connects to
setup_sockets ==
    /\ status = "running"
    /\ pc = "setup_sockets"
    /\ LET i == Cardinality({ e \in Engines : chan[e].fd # "unset" }) + 1
       IN  /\ indexed' = [indexed EXCEPT !.hosts = @ \cup {i - 1}]
           /\ \/ /\ chan' = [chan EXCEPT ![i] = Connect(chan[i], i)]
                 /\ pc' = IF i = nparties THEN "log_sockets" ELSE "setup_sockets"
                 /\ UNCHANGED status
              \/ /\ i > NumHosts
                 /\ status' \in {"segv", "error"}
                 /\ UNCHANGED <<pc, chan>>
    /\ UNCHANGED <<prime, nparties, frame, my_client_id, params_file, data_file,
                   local_data, sample_num, feature_num, training_data,
                   training_labels, feature_split_params, feat, queue, finished,
                   result_msgs, calls, unitvars>>

\* the three logger lines after setup_sockets: sockets[0], sockets[1] and
\* sockets[2] are read whatever nparties is; a read beyond the nparties
\* elements is undefined: a crash, or some number in the log
main_log_sockets ==
    /\ status = "running"
    /\ pc = "log_sockets"
    /\ indexed' = [indexed EXCEPT !.sockets = @ \cup {0, 1, 2}]
    /\ \/ /\ pc' = "read_training_data"
          /\ UNCHANGED status
       \/ /\ nparties < 3
          /\ status' = "segv"
          /\ UNCHANGED pc
    /\ UNCHANGED <<prime, nparties, chan, frame, my_client_id, params_file, data_file,
                   local_data, sample_num, feature_num, training_data,
                   training_labels, feature_split_params, feat, queue, finished,
                   result_msgs, calls, unitvars>>

\* what local_data[0].size() may yield when local_data is empty
GarbageSizes == { 0, 1 }

\* read_training_data: exit(EXIT_FAILURE) when the file cannot be opened; an
\* empty file makes local_data[0] undefined (a crash, or any size)
read_training_data ==
    /\ status = "running"
    /\ pc = "read_training_data"
    /\ IF ~data_file.exists
       THEN /\ status' = "exit_failure"
            /\ UNCHANGED <<pc, local_data, sample_num, feature_num, indexed>>
       ELSE /\ local_data' = data_file.rows
            /\ sample_num' = Len(data_file.rows)
            /\ indexed' = [indexed EXCEPT !.rows = @ \cup {0}]
            /\ IF data_file.rows # << >>
               THEN /\ feature_num' = Len(data_file.rows[1])
                    /\ pc' = "prepare"
                    /\ UNCHANGED status
               ELSE \/ /\ status' = "segv"
                       /\ UNCHANGED <<pc, feature_num>>
                    \/ /\ feature_num' \in GarbageSizes
                       /\ pc' = "prepare"
                       /\ UNCHANGED status
    /\ UNCHANGED <<prime, nparties, chan, frame, my_client_id, params_file, data_file,
                   training_data, training_labels, feature_split_params, feat, queue,
                   finished, result_msgs, calls,
                   unitvars>>

\* int training_data_num = sample_num * SPLIT_PERCENTAGE
training_data_num(n) == (n * 8) \div 10

\* the rows and labels main keeps: client 0 holds the labels in the last column
main_prepare ==
    /\ status = "running"
    /\ pc = "prepare"
    /\ LET num == training_data_num(sample_num)
       IN  IF my_client_id = 0
           THEN /\ training_labels' = [i \in 1 .. num |-> local_data[i][feature_num]]
                /\ training_data' =
                      [i \in 1 .. num |-> SubSeq(local_data[i], 1, feature_num - 1)]
                /\ feature_num' = feature_num - 1
           ELSE /\ training_labels' = << >>
                /\ training_data' =
                      [i \in 1 .. num |-> SubSeq(local_data[i], 1, feature_num)]
                /\ UNCHANGED feature_num
    /\ indexed' = [indexed EXCEPT
                       !.rows = @ \cup { i - 1 : i \in 1 .. training_data_num(sample_num) }]
    /\ queue' = Tagged("feature", Flatten(training_data'))
                \o Tagged("label", training_labels')
    /\ pc' = "send_data"
    /\ UNCHANGED <<status, prime, nparties, chan, frame, my_client_id, params_file,
                   data_file, local_data, sample_num, feature_split_params, feat,
                   finished, result_msgs, calls,
                   unitvars>>

\* one round of a send loop: the call on the head of the queue
SendHead(where, kinds, asFloat) ==
    /\ status = "running"
    /\ pc = where
    /\ NoCall
    /\ queue # << >>
    /\ Head(queue).kind \in kinds
    /\ IF asFloat
       THEN send_private_batch_shares(<<Head(queue).x>>)
       ELSE EnterInputs(<<gfp_assign(Head(queue).x)>>) /\ UNCHANGED batch
    /\ queue' = Tail(queue)
    /\ calls' = Append(calls, Head(queue).kind)
    /\ UNCHANGED <<pc, status, prime, nparties, chan, my_client_id, indexed, params_file,
                   data_file, local_data, sample_num, feature_num, training_data,
                   training_labels, feature_split_params, feat, finished, result_msgs,
                   resultvars, splitvars, warnings>>

\* the loops that send the training data and then the labels
main_send_data == SendHead("send_data", {"feature", "label"}, TRUE)

\* compute_label_class_ivs and the loop that sends its rows (client 0)
main_compute_label_class_ivs ==
    /\ status = "running"
    /\ pc = "send_data"
    /\ NoCall
    /\ queue = << >>
    /\ my_client_id = 0
    /\ queue' = Tagged("class_iv", Flatten(compute_label_class_ivs(training_labels)))
    /\ pc' = "send_class_ivs"
    /\ UNCHANGED <<status, prime, nparties, chan, frame, my_client_id, indexed, params_file,
                   data_file, local_data, sample_num, feature_num, training_data,
                   training_labels, feature_split_params, feat, finished, result_msgs,
                   calls,
                   unitvars>>

main_send_class_ivs == SendHead("send_class_ivs", {"class_iv"}, FALSE)

\* column j of training_data
feature_values_of(j) == [i \in 1 .. Len(training_data) |-> training_data[i][j]]

\* what an undefined read of a float may yield
GarbageFloats == { 0, FloatOf(1000) }

\* the loop that computes the split parameters of every feature
main_compute_splits ==
    /\ status = "running"
    /\ IF my_client_id = 0 THEN pc = "send_class_ivs" ELSE pc = "send_data"
    /\ NoCall
    /\ queue = << >>
    /\ \/ /\ \E j \in 1 .. feature_num :
                /\ SplitsReadPastEnd(feature_values_of(j))
                /\ \A k \in 1 .. j - 1 : ~SplitsReadPastEnd(feature_values_of(k))
                /\ warnings' = warnings + Cardinality({ k \in 1 .. j - 1 :
                                    one_distinct_warning(feature_values_of(k)) = 1 })
          /\ status' = "segv"
          /\ UNCHANGED <<pc, feature_split_params, queue>>
       \/ /\ \E tie \in TieOrders, garbage \in GarbageFloats :
                feature_split_params' =
                    [j \in 1 .. feature_num |->
                        compute_splits(feature_values_of(j), tie, garbage)]
          /\ warnings' = warnings + Cardinality({ j \in 1 .. feature_num :
                              one_distinct_warning(feature_values_of(j)) = 1 })
          /\ queue' = Tagged("split",
                Flatten([j \in 1 .. feature_num |->
                            SubSeq(feature_split_params'[j], 1, MAX_SPLIT_NUM + 1)]))
          /\ pc' = "send_splits"
          /\ UNCHANGED status
    /\ UNCHANGED <<prime, nparties, chan, frame, my_client_id, indexed, params_file, data_file,
                   local_data, sample_num, feature_num, training_data, training_labels,
                   feat, finished, result_msgs, calls,
                   resultvars, batch, splitvars>>

main_send_splits == SendHead("send_splits", {"split"}, TRUE)

\* the two send loops of one feature: every left row, then every right row
IvSendOrder_right_first(ivs) ==
    Tagged("right_iv", Flatten(ivs.right)) \o Tagged("left_iv", Flatten(ivs.left))

IvSendOrder(ivs) ==
    Tagged("left_iv", Flatten(ivs.left)) \o Tagged("right_iv", Flatten(ivs.right))

\* compute_feature_split_ivs for the next feature, and its two send loops
main_compute_feature_split_ivs ==
    /\ status = "running"
    /\ pc \in {"send_splits", "send_ivs"}
    /\ NoCall
    /\ queue = << >>
    /\ feat < feature_num
    /\ queue' = IvSendOrder(compute_feature_split_ivs(feature_values_of(feat + 1),
                                                      feature_split_params[feat + 1]))
    /\ feat' = feat + 1
    /\ pc' = "send_ivs"
    /\ UNCHANGED <<status, prime, nparties, chan, frame, my_client_id, indexed, params_file,
                   data_file, local_data, sample_num, feature_num, training_data,
                   training_labels, feature_split_params, finished, result_msgs, calls,
                   unitvars>>

main_send_ivs == SendHead("send_ivs", {"left_iv", "right_iv"}, FALSE)

\* what an engine may put into its result buffer: shares of y, r and w
ResultShares == TripleShares

\* receive_index: the first element of the buffer of sockets[0]
receive_index(msgs) == to_signed_bigint(msgs[1][1])

\* int finished = receive_index(sockets)
main_receive_index ==
    /\ status = "running"
    /\ pc \in {"send_splits", "send_ivs"}
    /\ NoCall
    /\ queue = << >>
    /\ feat >= feature_num
    /\ chan[1].fd = "open"
    /\ \E msgs \in [Engines -> ResultShares] :
          /\ result_msgs' = msgs
          /\ finished' = receive_index(msgs)
    /\ pc' = "close"
    /\ UNCHANGED <<status, prime, nparties, chan, frame, my_client_id, indexed, params_file,
                   data_file, local_data, sample_num, feature_num, training_data,
                   training_labels, feature_split_params, feat, queue, calls,
                   unitvars>>

\* one round of the closing loop; return 0 after the last socket
main_close ==
    /\ status = "running"
    /\ pc = "close"
    /\ LET i == Cardinality({ e \in Engines : chan[e].fd = "closed" }) + 1
       IN  /\ chan' = [chan EXCEPT ![i].fd = "closed"]
           /\ status' = IF i = nparties THEN "exit0" ELSE "running"
    /\ UNCHANGED <<pc, prime, nparties, frame, mainvars, unitvars>>

\* Inputs of a run.  The runs with one engine more than host_names has
\* addresses take client 0 and the datasets of at most one row.
MaxRows == 2

MaxCols == 2

DataValues == { FloatOf(1), 3 * FloatUnit + FloatUnit \div 2 }

\* the other of the two data values
OtherValue(x) == CHOOSE y \in DataValues : y # x

\* The files of r rows and c columns.  main treats every column on its own,
\* so the first column of the training rows ranges over DataValues and the
\* others follow it: the odd ones repeat it, the even ones hold the other
\* value.  The rows main holds out are never read again and hold 1.0.
DatasetsOf(r, c) ==
    { [i \in 1 .. r |->
          IF i <= training_data_num(r)
          THEN [j \in 1 .. c |-> IF j % 2 = 1 THEN t[i] ELSE OtherValue(t[i])]
          ELSE [j \in 1 .. c |-> FloatOf(1)]] :
      t \in [1 .. training_data_num(r) -> DataValues] }

Datasets == UNION { DatasetsOf(r, c) : r \in 0 .. MaxRows, c \in 1 .. MaxCols }

Init ==
    /\ pc = "initialise_fields"
    /\ status = "running"
    /\ prime = 0
    /\ nparties \in 1 .. NumHosts + 1
    /\ chan = [e \in 1 .. nparties |-> NoChannel]
    /\ values = << >>
    /\ triples = << >>
    /\ os = << >>
    /\ party = 1
    /\ shares = << >>
    /\ ip = "idle"
    /\ my_client_id \in {0, 1}
    /\ indexed = NoIndexed
    /\ params_file \in {NoFile, [exists |-> TRUE, p |-> FieldPrime, rows |-> << >>]}
    /\ data_file \in {NoFile} \cup { [exists |-> TRUE, p |-> 0, rows |-> d] : d \in Datasets }
    /\ nparties > NumHosts => my_client_id = 0 /\ Len(data_file.rows) <= 1
    /\ local_data = << >>
    /\ sample_num = 0
    /\ feature_num = 0
    /\ training_data = << >>
    /\ training_labels = << >>
    /\ feature_split_params = << >>
    /\ feat = 0
    /\ queue = << >>
    /\ finished = 0
    /\ result_msgs = << >>
    /\ calls = << >>
    /\ NoUnits

Next ==
    \/ initialise_fields
    \/ setup_sockets
    \/ main_log_sockets
    \/ read_training_data
    \/ main_prepare
    \/ main_send_data
    \/ main_compute_label_class_ivs
    \/ main_send_class_ivs
    \/ main_compute_splits
    \/ main_send_splits
    \/ main_compute_feature_split_ivs
    \/ main_send_ivs
    \/ send_private_inputs_recv
    \/ send_private_inputs_check
    \/ send_private_inputs_send
    \/ main_receive_index
    \/ main_close

Spec == Init /\ [][Next]_vars

(***************************************************************************)
(* receive_result                                                          *)
(***************************************************************************)
\* output_values[j] += value, for the buffer msg of one engine
AddBuffer_overwrite(acc, msg) == [j \in 1 .. Len(acc) |-> msg[j]]

AddBuffer(acc, msg) == [j \in 1 .. Len(acc) |-> gfp_add(acc[j], msg[j])]

fixed_decode(val) == to_signed_bigint(val) * UnitsPerFixed

\* what an engine may put into one element of its result buffer
ResultValues == { 1, 384, FieldPrime - 256, (FieldPrime + 1) \div 2 }

\* os.Receive(sockets[i]) and the unpack loop, for engine i = party
receive_result_recv ==
    /\ status = "running"
    /\ pc = "receive_result"
    /\ party <= nparties
    /\ chan[party].fd = "open"
    /\ \E msg \in [1 .. size -> ResultValues] :
          /\ output_values' = AddBuffer(output_values, msg)
          /\ result_msgs' = Append(result_msgs, msg)
    /\ party' = party + 1
    /\ pc' = IF party = nparties THEN "decode" ELSE "receive_result"
    /\ UNCHANGED <<status, prime, nparties, chan, values, triples, os, ip, shares,
                   my_client_id, indexed, params_file, data_file, local_data, sample_num,
                   feature_num, training_data, training_labels, feature_split_params,
                   feat, queue, finished, calls, size, res_shares, best_split_index,
                   batch, splitvars, warnings>>

\* the decoding loop and the index
receive_result_decode ==
    /\ status = "running"
    /\ pc = "decode"
    /\ res_shares' = [i \in 1 .. size - 1 |-> fixed_decode(output_values[i])]
    /\ best_split_index' = to_signed_bigint(output_values[size])
    /\ pc' = "returned"
    /\ UNCHANGED <<status, prime, nparties, chan, frame, mainvars, size, output_values,
                   batch, splitvars, warnings>>

MaxSize == 2

InitResult ==
    /\ pc = "receive_result"
    /\ status = "running"
    /\ prime = FieldPrime
    /\ nparties \in 1 .. NumHosts
    /\ chan = [e \in 1 .. nparties |-> Connect(NoChannel, e)]
    /\ values = << >>
    /\ triples = << >>
    /\ os = << >>
    /\ party = 1
    /\ shares = << >>
    /\ ip = "idle"
    /\ NoMain
    /\ size \in 1 .. MaxSize
    /\ output_values = [j \in 1 .. size |-> 0]
    /\ res_shares = << >>
    /\ best_split_index = 0
    /\ batch = << >>
    /\ NoSplits
    /\ warnings = 0

NextResult ==
    \/ receive_result_recv
    \/ receive_result_decode

SpecResult == InitResult /\ [][NextResult]_vars

(***************************************************************************)
(* The fixed-point conversion: send_private_batch_shares encodes, the      *)
(* decoding loop of receive_result decodes                                 *)
(***************************************************************************)
\* the floats x with |x| < 2^SPDZ_FIXED_PRECISION
BatchFloats ==
    { x \in -(FloatOf(2 ^ SPDZ_FIXED_PRECISION)) .. FloatOf(2 ^ SPDZ_FIXED_PRECISION) :
        x < FloatOf(2 ^ SPDZ_FIXED_PRECISION) /\ -x < FloatOf(2 ^ SPDZ_FIXED_PRECISION) }

\* the call of send_private_batch_shares on one float
batch_call ==
    /\ status = "running"
    /\ pc = "batch"
    /\ ip = "idle"
    /\ send_private_batch_shares(batch)
    /\ UNCHANGED <<pc, status, prime, nparties, chan, mainvars, resultvars, splitvars,
                   warnings>>

\* the decoding loop of receive_result on the element that was encoded
batch_decode ==
    /\ status = "running"
    /\ pc = "batch"
    /\ ip = "recv"
    /\ res_shares' = [i \in 1 .. Len(values) |-> fixed_decode(values[i])]
    /\ pc' = "returned"
    /\ UNCHANGED <<status, prime, nparties, chan, frame, mainvars, size, output_values,
                   best_split_index, batch, splitvars, warnings>>

InitFixed ==
    /\ pc = "batch"
    /\ status = "running"
    /\ prime = FieldPrime
    /\ nparties = 1
    /\ chan = [e \in 1 .. nparties |-> Connect(NoChannel, e)]
    /\ values = << >>
    /\ triples = << >>
    /\ os = << >>
    /\ party = 1
    /\ shares = << >>
    /\ ip = "idle"
    /\ NoMain
    /\ NoResult
    /\ \E x \in BatchFloats : batch = <<x>>
    /\ NoSplits
    /\ warnings = 0

NextFixed ==
    \/ batch_call
    \/ batch_decode

SpecFixed == InitFixed /\ [][NextFixed]_vars

(***************************************************************************)
(* compute_splits on one column                                            *)
(***************************************************************************)
MaxSamples == 11

\* Columns: sample i holds the square of (i * mult mod 10) div squash.  The
\* multipliers permute the residues; the divisors leave 10, 5, 2 or 1
\* distinct values; from the 11th sample on, values repeat.
Multipliers == { 1, 3, 7, 9 }

Divisors == { 1, 2, 5, 10 }

ColumnOf(n, mult, squash) ==
    [i \in 1 .. n |->
        LET v == ((i * mult) % (MAX_SPLIT_NUM + 2)) \div squash
        IN  FloatOf(v * v)]

Columns ==
    { ColumnOf(n, mult, squash) :
        n \in 0 .. MaxSamples, mult \in Multipliers, squash \in Divisors }

\* the examples of the documentation: [1,1,2,2,3] and [4,4,4,4]
ExampleColumns ==
    { <<FloatOf(1), FloatOf(1), FloatOf(2), FloatOf(2), FloatOf(3)>>,
      <<FloatOf(4), FloatOf(4), FloatOf(4), FloatOf(4)>> }

\* the call: a read past the end of sorted_indexes is undefined, and yields
\* a crash or some float
compute_splits_call ==
    /\ status = "running"
    /\ pc = "compute_splits"
    /\ reads' = QuantileReads(column)
    /\ \E tie \in TieOrders :
          /\ idx' = sort_indexes(column, tie)
          /\ \/ /\ SplitsReadPastEnd(column)
                /\ status' = "segv"
                /\ UNCHANGED <<pc, split_params>>
             \/ /\ \E garbage \in GarbageFloats :
                      split_params' = compute_splits(column, tie, garbage)
                /\ pc' = "returned"
                /\ UNCHANGED status
    /\ warnings' = warnings + one_distinct_warning(column)
    /\ UNCHANGED <<prime, nparties, chan, frame, mainvars, resultvars, batch, column,
                   ivvars>>

\* compute_feature_split_ivs on the column and the first k split parameters
compute_feature_split_ivs_call ==
    /\ status = "running"
    /\ pc = "returned"
    /\ \E k \in 0 .. Len(split_params) :
          LET ivs == compute_feature_split_ivs(column, SubSeq(split_params, 1, k))
          IN  /\ split_values_arg' = SubSeq(split_params, 1, k)
              /\ left_split_ivs' = left_split_ivs \o ivs.left
              /\ right_split_ivs' = right_split_ivs \o ivs.right
    /\ pc' = "ivs_returned"
    /\ UNCHANGED <<status, prime, nparties, chan, frame, mainvars, resultvars, batch,
                   column, split_params, idx, reads, classes_ivs, warnings>>

\* compute_label_class_ivs on the column taken as the labels
compute_label_class_ivs_call ==
    /\ status = "running"
    /\ pc = "compute_splits"
    /\ classes_ivs' = compute_label_class_ivs(column)
    /\ pc' = "classes_returned"
    /\ UNCHANGED <<status, prime, nparties, chan, frame, mainvars, resultvars, batch,
                   column, split_params, idx, reads, split_values_arg,
                   left_split_ivs, right_split_ivs, warnings>>

InitSplits ==
    /\ pc = "compute_splits"
    /\ status = "running"
    /\ prime = FieldPrime
    /\ nparties = 1
    /\ chan = [e \in 1 .. nparties |-> Connect(NoChannel, e)]
    /\ values = << >>
    /\ triples = << >>
    /\ os = << >>
    /\ party = 1
    /\ shares = << >>
    /\ ip = "idle"
    /\ NoMain
    /\ NoResult
    /\ batch = << >>
    /\ column \in Columns \cup ExampleColumns
    /\ split_params = << >>
    /\ idx = << >>
    /\ reads = {}
    /\ split_values_arg = << >>
    /\ left_split_ivs = << >>
    /\ right_split_ivs = << >>
    /\ classes_ivs = << >>
    /\ warnings = 0

NextSplits ==
    \/ compute_splits_call
    \/ compute_feature_split_ivs_call
    \/ compute_label_class_ivs_call

SpecSplits == InitSplits /\ [][NextSplits]_vars

(***************************************************************************)
(* Properties of send_private_inputs                                       *)
(***************************************************************************)
RECURSIVE ShareSum(_, _, _)
\* the sum of component k of the i-th triple share over the engines 1..e
ShareSum(e, i, k) ==
    IF e = 0 THEN 0 ELSE ShareSum(e - 1, i, k) + shares[e][i][k]

Aggregated(i, k) == ShareSum(Len(shares), i, k) % prime

Inconsistent(i) == (Aggregated(i, 1) * Aggregated(i, 2)) % prime # Aggregated(i, 3)

Checked == status = "exit1" \/ ip \in {"send", "done"}

\* C1: once every engine has reported, the call exits exactly when some
\* aggregated triple has a * b # c, and at that exit no engine has been
\* sent anything by the call.
C1_AbortIffInconsistent ==
    (pc = "send_private_inputs" /\ Checked) =>
        /\ Len(shares) = nparties
        /\ (status = "exit1") <=> (\E i \in 1 .. Len(values) : Inconsistent(i))
        /\ status = "exit1" =>
              \A e \in Engines : chan[e].nbuf = 0 /\ chan[e].inbox = <<>>

\* C1 witness: two engines, the first aggregated triple consistent and the
\* second not, and the process has exited.
C1_Witness ==
    /\ pc = "send_private_inputs"
    /\ status = "exit1"
    /\ nparties >= 2
    /\ Len(values) = 2
    /\ ~Inconsistent(1)
    /\ Inconsistent(2)

\* C2: when the call completes every engine has been sent the same
\* sequence y, with y_i = v_i + a_i for the aggregated a_i, so y_i - a_i
\* is v_i again.
C2_MaskedBroadcast ==
    (pc = "send_private_inputs" /\ ip = "done") =>
        \A e \in Engines :
            /\ chan[e].nbuf = 1
            /\ Len(chan[e].inbox) = Len(values)
            /\ \A i \in 1 .. Len(values) :
                  /\ chan[e].inbox[i] = (values[i] + Aggregated(i, 1)) % prime
                  /\ (chan[e].inbox[i] - Aggregated(i, 1)) % prime = values[i]

\* C2 witness: three engines, two values, the first sum wraps around the
\* modulus and the two masks differ.
C2_Witness ==
    /\ pc = "send_private_inputs"
    /\ ip = "done"
    /\ nparties = 3
    /\ Len(values) = 2
    /\ values[1] + Aggregated(1, 1) >= prime
    /\ Aggregated(1, 1) # Aggregated(2, 1)
    /\ Aggregated(1, 1) # Aggregated(1, 2)

(***************************************************************************)
(* Properties of main                                                      *)
(***************************************************************************)
RECURSIVE ResultSum(_, _)
\* the sum of component k of the result buffers of the engines 1..e
ResultSum(e, k) == IF e = 0 THEN 0 ELSE ResultSum(e - 1, k) + result_msgs[e][k]

Reconstructed(k) == ResultSum(nparties, k) % prime

\* C3: in a run over a dataset that has rows, a result main goes on with
\* satisfies y * r = w for the values reconstructed from all engines;
\* otherwise the process has aborted.
C3_ResultAuthenticated ==
    (pc = "close" /\ local_data # << >>) =>
        (Reconstructed(1) * Reconstructed(2)) % prime = Reconstructed(3)

\* C4: the scalar of the k-th call is masked with the k-th triple of every
\* engine and with nothing else, so no triple masks two values, and every
\* completed call has consumed one triple per engine.
C4_FreshTriples ==
    (pc \in {"send_data", "send_class_ivs", "send_splits", "send_ivs", "close"}) =>
        /\ \A e \in Engines : chan[e].dealt <= Len(calls)
        /\ ip \in {"check", "send", "done"} =>
              /\ Len(values) = 1
              /\ triples[1].ids = { <<e, Len(calls)>> : e \in Engines }
              /\ \A e \in Engines : chan[e].dealt = Len(calls)
        /\ ip = "done" => \A e \in Engines : chan[e].nbuf = Len(calls)

\* C4 witness: the third call of a session with two engines has completed.
C4_Witness ==
    /\ Len(calls) = 3
    /\ ip = "done"
    /\ nparties = 2
    /\ triples[1].ids = { <<1, 3>>, <<2, 3>> }

\* the phase of a call site
PhaseOf(kind) ==
    CASE kind \in {"feature", "label"} -> 1
      [] kind = "class_iv" -> 2
      [] kind = "split" -> 3
      [] kind \in {"left_iv", "right_iv"} -> 4

CountOf(kinds) == Cardinality({ i \in 1 .. Len(calls) : calls[i] \in kinds })

SamplesHeld == Len(training_data)

FeaturesHeld == IF feature_num > 0 THEN feature_num ELSE 0

ClassesHeld == Cardinality({ training_labels[i] : i \in 1 .. Len(training_labels) })

\* a call has just been entered: calls has grown by its call site
Entered == ip = "recv" /\ party = 1 /\ calls # << >>

\* C5: the calls go phase by phase: data and labels, class indicator
\* vectors, split parameters, per feature the left and then the right
\* indicator vectors, and the result is read after all of them; a phase
\* starts only when the phase before is complete, and a client other than
\* client 0 sends neither labels nor class indicator vectors.  (Every
\* prefix of calls is the calls of an earlier state, so what is stated of
\* the newest call holds of every call.)
C5_PhaseOrder ==
    /\ Entered =>
          LET kind == calls[Len(calls)]
              phase == PhaseOf(kind)
          IN  /\ \A i \in 1 .. Len(calls) : PhaseOf(calls[i]) <= phase
              /\ my_client_id # 0 => kind \notin {"label", "class_iv"}
              /\ phase >= 2 =>
                    /\ CountOf({"feature"}) = SamplesHeld * FeaturesHeld
                    /\ CountOf({"label"}) = (IF my_client_id = 0 THEN SamplesHeld ELSE 0)
              /\ phase >= 3 =>
                    CountOf({"class_iv"}) =
                        (IF my_client_id = 0 THEN ClassesHeld * SamplesHeld ELSE 0)
              /\ phase = 4 =>
                    /\ CountOf({"split"}) = (MAX_SPLIT_NUM + 1) * FeaturesHeld
                    /\ LET q == CountOf({"left_iv", "right_iv"}) - 1
                           rows == MAX_SPLIT_NUM * SamplesHeld
                       IN  kind = (IF q % (2 * rows) < rows THEN "left_iv" ELSE "right_iv")
    /\ pc = "close" =>
          /\ ip \in {"idle", "done"}
          /\ CountOf({"feature"}) = SamplesHeld * FeaturesHeld
          /\ CountOf({"label"}) = (IF my_client_id = 0 THEN SamplesHeld ELSE 0)
          /\ CountOf({"class_iv"}) =
                (IF my_client_id = 0 THEN ClassesHeld * SamplesHeld ELSE 0)
          /\ CountOf({"split"}) = (MAX_SPLIT_NUM + 1) * FeaturesHeld
          /\ CountOf({"left_iv", "right_iv"})
                = 2 * MAX_SPLIT_NUM * SamplesHeld * FeaturesHeld
          /\ \A e \in Engines : chan[e].nbuf = Len(calls)

\* C5 witness: client 0 has made calls of every kind and read the result.
C5_Witness ==
    /\ pc = "close"
    /\ my_client_id = 0
    /\ \A kind \in CallSites : CountOf({kind}) > 0

\* C6: when the process has ended, by return or by exit, no socket that
\* setup_sockets opened is still open.
C6_SocketsClosedAtExit ==
    (status \in {"exit0", "exit1", "exit_failure"}) =>
        \A e \in Engines : chan[e].fd # "open"

\* C7: when a missing Params-Data or a missing dataset file ends the
\* process, no socket has been opened and nothing has been sent.
C7_ConfigErrorBeforeNetwork ==
    (status \in {"file_error", "exit_failure"}) =>
        \A e \in Engines : chan[e].fd = "unset" /\ ~chan[e].id_sent

(***************************************************************************)
(* Properties of receive_result, of the fixed-point conversion and of      *)
(* compute_splits                                                          *)
(***************************************************************************)
\* the signed integer a residue stands for
SignedOf(x) == IF 2 * x > prime THEN x - prime ELSE x

Abs(z) == IF z < 0 THEN -z ELSE z

RECURSIVE BufferSum(_, _)
\* the sum of element j of the result buffers of the engines 1..e
BufferSum(e, j) == IF e = 0 THEN 0 ELSE BufferSum(e - 1, j) + result_msgs[e][j]

C9_FixedPoint ==
    (pc = "returned" /\ batch # << >>) =>
        LET x == batch[1]
            e == SignedOf(values[1])
            unit == FloatUnit \div (2 ^ SPDZ_FIXED_PRECISION)
        IN  /\ Len(values) = 1
            /\ values[1] \in 0 .. prime - 1
            /\ 2 * Abs(e * unit - x) <= unit
            /\ 2 * Abs(e * unit - x) = unit => Abs(e * unit) > Abs(x)
            /\ Abs(res_shares[1] - x) <= unit
            /\ 2 * x = FloatOf(7) => values[1] = 896 /\ res_shares[1] = x
            /\ x = -FloatOf(1) => values[1] = prime - 256 /\ res_shares[1] = x

\* C9 witness: 3.5 was encoded as 896 and decoded to 3.5.
C9_Witness ==
    /\ pc = "returned"
    /\ batch = << 3 * FloatUnit + FloatUnit \div 2 >>
    /\ values = << 896 >>
    /\ res_shares = batch

\* the number of distinct values of the column
DistinctCount == Cardinality({ column[i] : i \in 1 .. Len(column) })

\* the value at the 0-based position pos of the column in ascending order
SortedValue(pos) ==
    CHOOSE v \in { column[i] : i \in 1 .. Len(column) } :
        /\ Cardinality({ i \in 1 .. Len(column) : column[i] < v }) <= pos
        /\ Cardinality({ i \in 1 .. Len(column) : column[i] <= v }) > pos

\* C10: for a column with at least 9 distinct values compute_splits
\* returns [8, t_0 .. t_7], t_i the average of the values at the sorted
\* positions (i+1) * bin_size and (i+1) * bin_size + 1 of the column, and
\* the thresholds never decrease.
C10_QuantileThresholds ==
    (pc = "returned" /\ split_params # << >> /\ DistinctCount >= MAX_SPLIT_NUM + 1) =>
        LET bin_size == Len(column) \div (MAX_SPLIT_NUM + 1)
        IN  /\ Len(split_params) = MAX_SPLIT_NUM + 1
            /\ split_params[1] = FloatOf(MAX_SPLIT_NUM)
            /\ \A i \in 0 .. MAX_SPLIT_NUM - 1 :
                  /\ (i + 1) * bin_size + 1 <= Len(column) - 1
                  /\ 2 * split_params[i + 2]
                        = SortedValue((i + 1) * bin_size)
                          + SortedValue((i + 1) * bin_size + 1)
            /\ \A i \in 2 .. MAX_SPLIT_NUM :
                  split_params[i] <= split_params[i + 1]

\* the distinct values of the column
DistinctValues == { column[i] : i \in 1 .. Len(column) }

\* the k-th smallest distinct value of the column, k from 1
KthDistinct(k) ==
    CHOOSE v \in DistinctValues : Cardinality({ w \in DistinctValues : w < v }) = k - 1

\* C11: for a column with d distinct values, 2 <= d <= 8, compute_splits
\* returns 9 elements: d - 1, the d distinct values in ascending order, and
\* -1 in every remaining slot; [1,1,2,2,3] gives [2,1,2,3,-1,-1,-1,-1,-1].
C11_CategoricalSplits ==
    (pc = "returned" /\ split_params # << >>) =>
        /\ DistinctCount \in 2 .. MAX_SPLIT_NUM =>
              /\ Len(split_params) = MAX_SPLIT_NUM + 1
              /\ split_params[1] = DistinctCount * FloatUnit - FloatUnit
              /\ \A k \in 1 .. DistinctCount : split_params[k + 1] = KthDistinct(k)
              /\ \A k \in DistinctCount + 1 .. MAX_SPLIT_NUM : split_params[k + 1] = -FloatUnit
        /\ column = <<1024, 1024, 2048, 2048, 3072>> =>
              split_params = <<2048, 1024, 2048, 3072, -1024, -1024, -1024, -1024, -1024>>

\* C11 witness: compute_splits has returned for the column [1,1,2,2,3].
C11_Witness ==
    /\ pc = "returned"
    /\ column = <<1024, 1024, 2048, 2048, 3072>>
    /\ split_params = <<2048, 1024, 2048, 3072, -1024, -1024, -1024, -1024, -1024>>

(***************************************************************************)
(* Properties of main's split parameters                                   *)
(***************************************************************************)
\* the values column j of the training data holds
ValuesOfFeature(j) == { training_data[i][j] : i \in 1 .. Len(training_data) }

\* the features whose column is not empty and holds one distinct value
OneValued ==
    { j \in 1 .. Len(feature_split_params) : Cardinality(ValuesOfFeature(j)) = 1 }

\* the split parameters have been computed and none was sent yet
SplitsComputed ==
    /\ feature_split_params # << >>
    /\ \A i \in 1 .. Len(calls) : calls[i] # "split"

\* C12: a non-empty column with one distinct value yields
\* [0,-1,-1,-1,-1,-1,-1,-1,-1] and a warning; main does not end there, and
\* sends the nine elements of every feature's vector, this one included.
C12_OneDistinctValue ==
    /\ \A j \in OneValued :
          feature_split_params[j] =
              <<0, -1024, -1024, -1024, -1024, -1024, -1024, -1024, -1024>>
    /\ warnings >= Cardinality(OneValued)
    /\ (SplitsComputed /\ ~Entered) => (status = "running" /\ pc = "send_splits")
    /\ (Entered /\ calls[Len(calls)] = "split") =>
          LET k == CountOf({"split"})
              j == ((k - 1) \div (MAX_SPLIT_NUM + 1)) + 1
              s == ((k - 1) % (MAX_SPLIT_NUM + 1)) + 1
          IN  /\ j <= Len(feature_split_params)
              /\ batch = << feature_split_params[j][s] >>
    /\ pc \in {"send_ivs", "close"} =>
          CountOf({"split"}) = (MAX_SPLIT_NUM + 1) * Len(feature_split_params)

\* C12 witness: the session ran to its end with a one-valued first feature,
\* whose warning was printed and whose nine elements were sent.
C12_Witness ==
    /\ status = "exit0"
    /\ 1 \in OneValued
    /\ feature_split_params[1][1] = 0
    /\ warnings >= 1
    /\ CountOf({"split"}) >= MAX_SPLIT_NUM + 1

(***************************************************************************)
(* Properties of the indicator vectors                                     *)
(***************************************************************************)
\* C13: given n feature values and k split parameters (k >= 1),
\* compute_feature_split_ivs appends k - 1 left and k - 1 right rows of
\* length n; in row s the left entry of sample i is 1 iff the value is at
\* most parameter s + 1 (0-based), the right entry is 1 otherwise, and the
\* two add up to 1.
C13_SplitIndicators ==
    (pc = "ivs_returned" /\ split_values_arg # << >>) =>
        LET k == Len(split_values_arg)
            n == Len(column)
        IN  /\ Len(left_split_ivs) = k - 1
            /\ Len(right_split_ivs) = k - 1
            /\ \A s \in 1 .. k - 1 :
                  /\ Len(left_split_ivs[s]) = n
                  /\ Len(right_split_ivs[s]) = n
                  /\ \A i \in 1 .. n :
                        /\ left_split_ivs[s][i] \in {0, 1}
                        /\ right_split_ivs[s][i] \in {0, 1}
                        /\ left_split_ivs[s][i] = 1 <=> column[i] <= split_values_arg[s + 1]
                        /\ right_split_ivs[s][i] = 1 <=> column[i] > split_values_arg[s + 1]
                        /\ left_split_ivs[s][i] + right_split_ivs[s][i] = 1

\* C13 witness: nine parameters were given, and some row sends one sample
\* to the left and another to the right.
C13_Witness ==
    /\ pc = "ivs_returned"
    /\ Len(split_values_arg) = MAX_SPLIT_NUM + 1
    /\ Len(left_split_ivs) = MAX_SPLIT_NUM
    /\ \E s \in 1 .. Len(left_split_ivs) :
          \E i1, i2 \in 1 .. Len(column) :
              /\ left_split_ivs[s][i1] = 1
              /\ right_split_ivs[s][i2] = 1
              /\ column[i1] = split_values_arg[s + 1]

\* the first position of the value v in the column
FirstPos(v) == CHOOSE i \in 1 .. Len(column) :
                  column[i] = v /\ \A h \in 1 .. i - 1 : column[h] # v

\* the j-th value of the column in order of first occurrence, j from 1
ClassAt(j) ==
    CHOOSE v \in DistinctValues :
        Cardinality({ w \in DistinctValues : FirstPos(w) < FirstPos(v) }) = j - 1

\* C14: compute_label_class_ivs returns one row per distinct label, the
\* rows in order of the labels' first occurrence, each of length n with 1
\* exactly where the label is the row's; every sample has 1 in one row only.
C14_ClassIndicators ==
    pc = "classes_returned" =>
        /\ Len(classes_ivs) = DistinctCount
        /\ \A j \in 1 .. Len(classes_ivs) :
              /\ Len(classes_ivs[j]) = Len(column)
              /\ \A i \in 1 .. Len(column) :
                    /\ classes_ivs[j][i] \in {0, 1}
                    /\ classes_ivs[j][i] = 1 <=> column[i] = ClassAt(j)
        /\ \A i \in 1 .. Len(column) :
              Cardinality({ j \in 1 .. Len(classes_ivs) : classes_ivs[j][i] = 1 }) = 1

\* C14 witness: at least three classes, not met in ascending order, and a
\* class that labels more than one sample.
C14_Witness ==
    /\ pc = "classes_returned"
    /\ Len(classes_ivs) >= 3
    /\ \E j \in 1 .. Len(classes_ivs) - 1 : ClassAt(j) > ClassAt(j + 1)
    /\ \E j \in 1 .. Len(classes_ivs) :
          Cardinality({ i \in 1 .. Len(column) : classes_ivs[j][i] = 1 }) > 1

(***************************************************************************)
(* Properties of the connections                                           *)
(***************************************************************************)
\* the engines a connection has been opened to
Connected == { e \in DOMAIN chan : chan[e].fd # "unset" }

\* C15: the connections are opened one per engine, in index order, engine
\* i (0-based) at port port_base + i, and an engine deals triples or is sent
\* masked values only on a connection that carried the client id first.
C15_IdBeforeProtocol ==
    /\ DOMAIN chan = 1 .. nparties
    /\ \A e \in Connected :
          /\ chan[e].port = 20000 + (e - 1)
          /\ chan[e].id_sent
          /\ \A d \in 1 .. e - 1 : d \in Connected
    /\ \A e \in DOMAIN chan :
          (chan[e].dealt > 0 \/ chan[e].nbuf > 0 \/ chan[e].inbox # << >>) =>
              (e \in Connected /\ chan[e].id_sent)
    /\ \A e \in DOMAIN chan : e \notin Connected => ~chan[e].id_sent
    /\ (pc \notin {"initialise_fields", "setup_sockets"}) => Connected = 1 .. nparties

\* C15 witness: three engines are connected at ports 20000..20002 and the
\* last has dealt a triple and been sent a masked value.
C15_Witness ==
    /\ nparties = 3
    /\ Connected = {1, 2, 3}
    /\ chan[3].port = 20002
    /\ chan[3].dealt > 0
    /\ chan[3].nbuf > 0
    /\ my_client_id = 1

(***************************************************************************)
(* The mask                                                                *)
(***************************************************************************)
\* the elements of the field
Field == 0 .. prime - 1

\* C16: what is put on the wire for input i is values[i] + a_i and nothing
\* else; for that wire value y and every private value v there is exactly
\* one mask a with v + a = y, and the wire values v + a, a over the field,
\* are the whole field whatever v is.
C16_MaskHides ==
    (ip \in {"send", "done"}) =>
        /\ Len(os) = Len(values)
        /\ \A e \in DOMAIN chan : chan[e].inbox \in { << >>, os }
        /\ \A i \in 1 .. Len(os) :
              /\ os[i] = (values[i] + Aggregated(i, 1)) % prime
              /\ \A v \in Field :
                    /\ Cardinality({ a \in Field : (v + a) % prime = os[i] }) = 1
                    /\ { (v + a) % prime : a \in Field } = Field

\* C16 witness: two engines, the value was masked with a non-zero a and the
\* masked value, which differs from the value, has been sent to both.
C16_Witness ==
    /\ ip = "done"
    /\ nparties = 2
    /\ Aggregated(1, 1) # 0
    /\ os # values
    /\ \A e \in DOMAIN chan : chan[e].inbox = os

(***************************************************************************)
(* The reads of the quantile loop                                          *)
(***************************************************************************)
\* C17: every sorted position the quantile loop reads lies in 0 .. n - 1,
\* also for n = 9, and the call does not crash on a read.
C17_ReadsInBounds ==
    /\ \A pos \in reads : 0 <= pos /\ pos <= Len(column) - 1
    /\ status # "segv"

(***************************************************************************)
(* The value main obtains at the end                                       *)
(***************************************************************************)
\* C18: the value main holds after its last receive is the signed value of
\* the sum of the shares of all engines.
C18_ResultFromAllEngines ==
    (pc = "close" /\ local_data # << >>) =>
        finished = SignedOf(BufferSum(nparties, 1) % prime)

(***************************************************************************)
(* The order of receives and sends inside one call                         *)
(***************************************************************************)
\* the engines whose buffer of this call has been received
ReceivedFrom == 1 .. Len(shares)

\* the engines the masked values of this call have been sent to
SentTo == { e \in DOMAIN chan : chan[e].nbuf > 0 }

\* C19: in a call the buffers are received engine by engine in index order;
\* nothing is sent while an engine's buffer is still to be received, and
\* the masked values go to the engines in index order.
C19_ReceiveAllThenSend ==
    /\ ip = "recv" => (ReceivedFrom = 1 .. party - 1 /\ SentTo = {})
    /\ ip = "check" => (ReceivedFrom = 1 .. nparties /\ SentTo = {})
    /\ ip = "send" => (ReceivedFrom = 1 .. nparties /\ SentTo = 1 .. party - 1)
    /\ ip = "done" => (ReceivedFrom = 1 .. nparties /\ SentTo = 1 .. nparties)
    /\ SentTo # {} => ReceivedFrom = 1 .. nparties
    /\ \A e \in DOMAIN chan :
          /\ chan[e].dealt = IF e \in ReceivedFrom THEN Len(values) ELSE 0
          /\ chan[e].nbuf <= 1
          /\ e \in SentTo => chan[e].inbox = os
    /\ \A i \in 1 .. Len(triples) :
          triples[i].ids = { <<e, i>> : e \in ReceivedFrom }

\* C19 witness: three engines; all three buffers were received and the
\* masked values have gone to the first two engines, not yet to the third.
C19_Witness ==
    /\ nparties = 3
    /\ ip = "send"
    /\ Len(values) > 0
    /\ ReceivedFrom = {1, 2, 3}
    /\ SentTo = {1, 2}

(***************************************************************************)
(* The index order of sort_indexes                                         *)
(***************************************************************************)
\* C20: the index order compute_splits works on is the stable sort of the
\* sample indices by value: values ascend, and equal values keep the order
\* of their indices.
C20_StableSort ==
    idx # << >> =>
        /\ Len(idx) = Len(column)
        /\ \A p, q \in 1 .. Len(idx) :
              p < q =>
                 \/ column[idx[p]] < column[idx[q]]
                 \/ column[idx[p]] = column[idx[q]] /\ idx[p] < idx[q]

(***************************************************************************)
(* The empty dataset                                                       *)
(***************************************************************************)
\* C21: with a dataset file of zero rows the run does not crash, reads no
\* row of local_data that does not exist, and every split vector it goes on
\* with is [0,-1,-1,-1,-1,-1,-1,-1,-1].
C21_EmptyDatasetNonFatal ==
    (data_file.exists /\ data_file.rows = << >>) =>
        /\ ~(status = "segv" /\ pc = "read_training_data")
        /\ \A i \in indexed.rows : i < Len(data_file.rows)
        /\ \A j \in 1 .. Len(feature_split_params) :
              feature_split_params[j] =
                  <<0, -1024, -1024, -1024, -1024, -1024, -1024, -1024, -1024>>

(***************************************************************************)
(* The end of the session                                                  *)
(***************************************************************************)
\* C22: with both files present the session ends in no other way than by
\* the exit on an inconsistent triple or by return 0; and at return 0 every
\* planned value was sent, the result was received and every socket closed.
C22_NormalTermination ==
    (params_file.exists /\ data_file.exists) =>
        /\ status \in {"running", "exit0", "exit1"}
        /\ status = "exit0" =>
              /\ queue = << >>
              /\ ip \in {"idle", "done"}
              /\ result_msgs # << >>
              /\ \A e \in DOMAIN chan : chan[e].fd = "closed"

(***************************************************************************)
(* The indexes of host_names and sockets                                   *)
(***************************************************************************)
\* C23: whatever the engine count m, host_names and sockets are indexed at
\* positions 0 .. m-1 only, no host name is read beyond the addresses
\* host_names holds, and no socket is read at an index of m or more.
C23_IndexesWithinCohort ==
    /\ \A h \in indexed.hosts : h < nparties /\ h < NumHosts
    /\ \A k \in indexed.sockets : k < nparties

====
